---- MODULE Spec2Model ----
(***************************************************************************)
(* A model of the terminal text editor (src/unnamed/part_000): the line    *)
(* buffer, the cursor and scroll logic, the key dispatch of                *)
(* editorProcessKeypress, the save path with its prompt, and the quit      *)
(* guard.  Bytes are the integers 0..255; a row's chars and render are     *)
(* sequences of bytes; E is the global struct editorConfig.                *)
(*                                                                         *)
(* The main loop is  while (1) { editorRefreshScreen();                    *)
(* editorProcessKeypress(); }.  A step of Spec is one key event: the body  *)
(* of editorProcessKeypress followed by the editorScroll of the next       *)
(* editorRefreshScreen, so every state of Spec is a state in which the     *)
(* program blocks in editorReadKey.  The save-as prompt is the modal       *)
(* state pc = "prompt" (the nested read loop of editorPrompt).             *)
(***************************************************************************)
EXTENDS Integers, Sequences, FiniteSets, TLC

VARIABLES
    E,           \* struct editorConfig E
    quit_times,  \* static int quit_times of editorProcessKeypress
    pc,          \* "edit" | "prompt" | "exited" ; "prior" | "scrolled" in SpecScroll
    promptbuf,   \* buf of editorPrompt while pc = "prompt"
    written,     \* the file operation of the latest key event: [result, bytes]
    prev,        \* history: kind of the latest completed key event:
                 \* "none" | "refused" (a refused quit) | "other"
    file,        \* the bytes of the file editorOpen reads (SpecFile)
    plain,       \* the plain byte string edited next to a row (SpecRow)
    stdin,       \* what the coming read() calls on the terminal give (SpecReadKey)
    decoded,     \* the latest return of editorReadKey: [key, reads, from]
    frame,       \* the bytes of the latest frame written to the terminal (SpecRender)
    clock,       \* time(NULL) - E.statusmsg_time at the refreshes (SpecRender)
    before       \* history: E before the latest insertion (SpecUndo)

vars == <<E, quit_times, pc, promptbuf, written, prev, file, plain, stdin, decoded,
         frame, clock, before>>

\* the variables of the small specifications, which a key event leaves alone
extra == <<frame, clock, before>>
aux == <<file, plain, stdin, decoded, extra>>

(***************************** program constants ***************************)

EDITOR_TAB_LEN == 8
EDITOR_QUIT_TIMES == 1

CTRL_KEY(k) == k % 32

BACKSPACE == 127
ARROW_LEFT == 1000
ARROW_RIGHT == 1001
ARROW_UP == 1002
ARROW_DOWN == 1003
DEL_KEY == 1004
HOME_KEY == 1005
END_KEY == 1006
PAGE_UP == 1007
PAGE_DOWN == 1008

ESC == 27
CR == 13
NL == 10
TAB == 9
SPACE == 32
CTRL_Q == CTRL_KEY(113)
CTRL_C == CTRL_KEY(99)
CTRL_S == CTRL_KEY(115)
CTRL_H == CTRL_KEY(104)
CTRL_L == CTRL_KEY(108)

\* E.filename == NULL
NULL == <<-1>>

(********************************* bounds **********************************)

\* most rows a document may grow to
MaxRows == 4
\* most bytes, over all rows, a document may grow to
MaxChars == 2
\* edits are taken while dirty is below this
MaxDirty == 2
\* largest viewport side tried by SpecScroll: 1..MaxScreen
MaxScreen == 2
\* prior offsets tried by SpecScroll: 0..MaxOff
MaxOff == 3
\* most bytes of a file opened by SpecFile
MaxFile == 4
\* most bytes a row of SpecRow may grow to
MaxLine == 3
\* most edits of the row taken by SpecRow
MaxEdits == 4
\* the keys typed in one run of the loop of main taken step by step
MaxKeys == 4

(****************************** row operations *****************************)

\* mutant: at a tab rx is assigned the distance, not advanced by it (= for +=)
RECURSIVE CxToRxLoopAssigns(_, _, _, _)
CxToRxLoopAssigns(chars, cx, i, rx) ==
    IF i >= cx THEN rx
    ELSE LET rx1 == IF chars[i + 1] = TAB
                    THEN (EDITOR_TAB_LEN - 1) - (rx % EDITOR_TAB_LEN)
                    ELSE rx
         IN CxToRxLoopAssigns(chars, cx, i + 1, rx1 + 1)

RECURSIVE CxToRxLoop(_, _, _, _)
CxToRxLoop(chars, cx, i, rx) ==
    IF i >= cx THEN rx
    ELSE LET rx1 == IF chars[i + 1] = TAB
                    THEN rx + (EDITOR_TAB_LEN - 1) - (rx % EDITOR_TAB_LEN)
                    ELSE rx
         IN CxToRxLoop(chars, cx, i + 1, rx1 + 1)

editorRowCxToRx(r, cx) == CxToRxLoop(r.chars, cx, 0, 0)

\* the inner while of editorUpdateRow: pad with spaces up to the next tab stop
RECURSIVE PadToTabStop(_)
PadToTabStop(render) ==
    IF Len(render) % EDITOR_TAB_LEN /= 0
    THEN PadToTabStop(Append(render, SPACE))
    ELSE render

RECURSIVE RenderLoop(_, _, _)
RenderLoop(chars, j, render) ==
    IF j >= Len(chars) THEN render
    ELSE IF chars[j + 1] = TAB
         THEN RenderLoop(chars, j + 1, PadToTabStop(Append(render, SPACE)))
         ELSE RenderLoop(chars, j + 1, Append(render, chars[j + 1]))

editorUpdateRow(r) ==
    LET render == RenderLoop(SubSeq(r.chars, 1, r.size), 0, <<>>)
    IN [r EXCEPT !.render = render, !.rsize = Len(render)]

NewRow(s) ==
    editorUpdateRow([size |-> Len(s), rsize |-> 0, chars |-> s, render |-> <<>>])

\* mutant: an index past the end appends the row instead of returning
editorInsertRowClampsToEnd(e, at0, s) ==
    LET at == IF at0 > e.numrows THEN e.numrows ELSE at0
    IN IF at < 0 THEN e
       ELSE [e EXCEPT
               !.row = SubSeq(e.row, 1, at) \o <<NewRow(s)>>
                         \o SubSeq(e.row, at + 1, e.numrows),
               !.numrows = e.numrows + 1,
               !.dirty = e.dirty + 1]

editorInsertRow(e, at, s) ==
    IF at < 0 \/ at > e.numrows THEN e
    ELSE [e EXCEPT
            !.row = SubSeq(e.row, 1, at) \o <<NewRow(s)>>
                      \o SubSeq(e.row, at + 1, e.numrows),
            !.numrows = e.numrows + 1,
            !.dirty = e.dirty + 1]

editorAppendRow(e, s) == editorInsertRow(e, e.numrows, s)

editorDelRow(e, at) ==
    IF at < 0 \/ at >= e.numrows THEN e
    ELSE [e EXCEPT
            !.row = SubSeq(e.row, 1, at) \o SubSeq(e.row, at + 2, e.numrows),
            !.numrows = e.numrows - 1,
            !.dirty = e.dirty + 1]

\* mutant: an out-of-range column is clamped to the start of the row
editorRowInsertCharClampsToStart(e, ri, at0, c) ==
    LET r == e.row[ri + 1]
        at == IF at0 < 0 \/ at0 > r.size THEN 0 ELSE at0
        chars == SubSeq(r.chars, 1, at) \o <<c % 256>> \o SubSeq(r.chars, at + 1, r.size)
    IN [e EXCEPT
          !.row[ri + 1] = editorUpdateRow([r EXCEPT !.chars = chars, !.size = r.size + 1]),
          !.dirty = e.dirty + 1]

\* row is E.row + ri (0-based); chars[at] = c stores the int as a char
editorRowInsertChar(e, ri, at0, c) ==
    LET r == e.row[ri + 1]
        at == IF at0 < 0 \/ at0 > r.size THEN r.size ELSE at0
        chars == SubSeq(r.chars, 1, at) \o <<c % 256>> \o SubSeq(r.chars, at + 1, r.size)
    IN [e EXCEPT
          !.row[ri + 1] = editorUpdateRow([r EXCEPT !.chars = chars, !.size = r.size + 1]),
          !.dirty = e.dirty + 1]

editorRowAppendString(e, ri, s) ==
    LET r == e.row[ri + 1]
    IN [e EXCEPT
          !.row[ri + 1] = editorUpdateRow([r EXCEPT !.chars = SubSeq(r.chars, 1, r.size) \o s,
                                                    !.size = r.size + Len(s)]),
          !.dirty = e.dirty + 1]

\* mutant: the deletion is made without E.dirty++
editorRowDeleteCharClean(e, ri, at) ==
    LET r == e.row[ri + 1]
    IN IF at < 0 \/ at >= r.size THEN e
       ELSE [e EXCEPT
               !.row[ri + 1] = editorUpdateRow(
                   [r EXCEPT !.chars = SubSeq(r.chars, 1, at) \o SubSeq(r.chars, at + 2, r.size),
                             !.size = r.size - 1])]

editorRowDeleteChar(e, ri, at) ==
    LET r == e.row[ri + 1]
    IN IF at < 0 \/ at >= r.size THEN e
       ELSE [e EXCEPT
               !.row[ri + 1] = editorUpdateRow(
                   [r EXCEPT !.chars = SubSeq(r.chars, 1, at) \o SubSeq(r.chars, at + 2, r.size),
                             !.size = r.size - 1]),
               !.dirty = e.dirty + 1]

(***************************** editor operations ***************************)

editorInsertChar(e, c) ==
    LET e1 == IF e.cy = e.numrows THEN editorAppendRow(e, <<>>) ELSE e
        e2 == editorRowInsertChar(e1, e1.cy, e1.cx, c)
    IN [e2 EXCEPT !.cx = e2.cx + 1]

\* mutant: the join takes the column after the append, not before it
editorDelCharCxAfterJoin(e) ==
    IF e.cy = e.numrows THEN e
    ELSE IF e.cx = 0 /\ e.cy = 0 THEN e
    ELSE IF e.cx > 0
         THEN LET e1 == editorRowDeleteChar(e, e.cy, e.cx - 1)
              IN [e1 EXCEPT !.cx = e1.cx - 1]
         ELSE LET r == e.row[e.cy + 1]
                  e2 == editorRowAppendString(e, e.cy - 1, SubSeq(r.chars, 1, r.size))
                  e3 == editorDelRow([e2 EXCEPT !.cx = e2.row[e2.cy].size], e2.cy)
              IN [e3 EXCEPT !.cy = e3.cy - 1]

editorDelChar(e) ==
    IF e.cy = e.numrows THEN e
    ELSE IF e.cx = 0 /\ e.cy = 0 THEN e
    ELSE IF e.cx > 0
         THEN LET e1 == editorRowDeleteChar(e, e.cy, e.cx - 1)
              IN [e1 EXCEPT !.cx = e1.cx - 1]
         ELSE LET r == e.row[e.cy + 1]
                  e1 == [e EXCEPT !.cx = e.row[e.cy].size]
                  e2 == editorRowAppendString(e1, e1.cy - 1, SubSeq(r.chars, 1, r.size))
                  e3 == editorDelRow(e2, e2.cy)
              IN [e3 EXCEPT !.cy = e3.cy - 1]

\* mutant: the split copies the tail to the new row and forgets to cut it
\* off the old one
editorInsertNewLineNoCut(e) ==
    LET e1 == IF e.cx = 0
              THEN editorInsertRow(e, e.cy, <<>>)
              ELSE LET r == e.row[e.cy + 1]
                   IN editorInsertRow(e, e.cy + 1, SubSeq(r.chars, e.cx + 1, r.size))
    IN [e1 EXCEPT !.cy = e1.cy + 1, !.cx = 0]

\* mutant: the row cut short by the split is not rendered again
editorInsertNewLineStale(e) ==
    LET e1 == IF e.cx = 0
              THEN editorInsertRow(e, e.cy, <<>>)
              ELSE LET r == e.row[e.cy + 1]
                       ea == editorInsertRow(e, e.cy + 1, SubSeq(r.chars, e.cx + 1, r.size))
                       rb == ea.row[ea.cy + 1]
                   IN [ea EXCEPT !.row[ea.cy + 1] =
                          [rb EXCEPT !.size = ea.cx, !.chars = SubSeq(rb.chars, 1, ea.cx)]]
    IN [e1 EXCEPT !.cy = e1.cy + 1, !.cx = 0]

editorInsertNewLine(e) ==
    LET e1 == IF e.cx = 0
              THEN editorInsertRow(e, e.cy, <<>>)
              ELSE LET r == e.row[e.cy + 1]
                       ea == editorInsertRow(e, e.cy + 1, SubSeq(r.chars, e.cx + 1, r.size))
                       rb == ea.row[ea.cy + 1]
                   IN [ea EXCEPT !.row[ea.cy + 1] =
                          editorUpdateRow([rb EXCEPT !.size = ea.cx,
                                                     !.chars = SubSeq(rb.chars, 1, ea.cx)])]
    IN [e1 EXCEPT !.cy = e1.cy + 1, !.cx = 0]

(********************************* file i/o ********************************)

\* mutant: '\n' goes between the rows, none after the last
RECURSIVE RowsToStringNoLastNL(_, _, _)
RowsToStringNoLastNL(e, i, buf) ==
    IF i >= e.numrows THEN buf
    ELSE RowsToStringNoLastNL(e, i + 1,
            buf \o SubSeq(e.row[i + 1].chars, 1, e.row[i + 1].size)
                \o (IF i + 1 < e.numrows THEN <<NL>> ELSE <<>>))

RECURSIVE RowsToStringLoop(_, _, _)
RowsToStringLoop(e, i, buf) ==
    IF i >= e.numrows THEN buf
    ELSE RowsToStringLoop(e, i + 1,
            buf \o SubSeq(e.row[i + 1].chars, 1, e.row[i + 1].size) \o <<NL>>)

RECURSIVE TotLenLoop(_, _, _)
TotLenLoop(e, i, totlen) ==
    IF i >= e.numrows THEN totlen
    ELSE TotLenLoop(e, i + 1, totlen + e.row[i + 1].size + 1)

\* [buf, buflen]: the returned buffer and the length stored through buflen
editorRowsToString(e) ==
    [buf |-> RowsToStringLoop(e, 0, <<>>), buflen |-> TotLenLoop(e, 0, 0)]

\* getline: the bytes up to and including the first '\n', or all that is left
RECURSIVE GetLine(_, _)
GetLine(bytes, n) ==
    IF n >= Len(bytes) THEN bytes
    ELSE IF bytes[n + 1] = NL THEN SubSeq(bytes, 1, n + 1)
    ELSE GetLine(bytes, n + 1)

RECURSIVE StripEol(_)
StripEol(line) ==
    IF Len(line) > 0 /\ (line[Len(line)] = NL \/ line[Len(line)] = CR)
    THEN StripEol(SubSeq(line, 1, Len(line) - 1))
    ELSE line

RECURSIVE OpenLoop(_, _)
OpenLoop(e, bytes) ==
    IF Len(bytes) = 0 THEN e
    ELSE LET line == GetLine(bytes, 0)
         IN OpenLoop(editorAppendRow(e, StripEol(line)),
                     SubSeq(bytes, Len(line) + 1, Len(bytes)))

editorOpen(e, filename, bytes) ==
    [OpenLoop([e EXCEPT !.filename = SubSeq(filename, 1, IF Len(filename) < 20 THEN Len(filename) ELSE 20)],
              bytes)
       EXCEPT !.dirty = 0]

(********************************** output *********************************)

\* mutant: scrolling down and right lands one short (the + 1 is left out)
editorScrollOffByOne(e) ==
    LET rx == IF e.cy < e.numrows THEN editorRowCxToRx(e.row[e.cy + 1], e.cx) ELSE 0
        ro1 == IF e.cy < e.rowoff THEN e.cy ELSE e.rowoff
        ro2 == IF e.cy >= ro1 + e.screenrows THEN e.cy - e.screenrows ELSE ro1
        co1 == IF rx < e.coloff THEN rx ELSE e.coloff
        co2 == IF rx >= co1 + e.screencols THEN rx - e.screencols ELSE co1
    IN [e EXCEPT !.rx = rx, !.rowoff = ro2, !.coloff = co2]

\* mutant: a cursor below the window scrolls the window by one row a refresh
editorScrollOneRow(e) ==
    LET rx == IF e.cy < e.numrows THEN editorRowCxToRx(e.row[e.cy + 1], e.cx) ELSE 0
        ro1 == IF e.cy < e.rowoff THEN e.cy ELSE e.rowoff
        ro2 == IF e.cy >= ro1 + e.screenrows THEN ro1 + 1 ELSE ro1
        co1 == IF rx < e.coloff THEN rx ELSE e.coloff
        co2 == IF rx >= co1 + e.screencols THEN rx - e.screencols + 1 ELSE co1
    IN [e EXCEPT !.rx = rx, !.rowoff = ro2, !.coloff = co2]

editorScroll(e) ==
    LET rx == IF e.cy < e.numrows THEN editorRowCxToRx(e.row[e.cy + 1], e.cx) ELSE 0
        ro1 == IF e.cy < e.rowoff THEN e.cy ELSE e.rowoff
        ro2 == IF e.cy >= ro1 + e.screenrows THEN e.cy - e.screenrows + 1 ELSE ro1
        co1 == IF rx < e.coloff THEN rx ELSE e.coloff
        co2 == IF rx >= co1 + e.screencols THEN rx - e.screencols + 1 ELSE co1
    IN [e EXCEPT !.rx = rx, !.rowoff = ro2, !.coloff = co2]

editorSetStatusMessage(e, fmt, args) ==
    [e EXCEPT !.statusmsg = [fmt |-> fmt, args |-> args]]

editorRefreshScreen(e) == editorScroll(e)

\* snprintf("%d", n)
RECURSIVE Dec(_)
Dec(n) ==
    IF n < 0 THEN <<45>> \o Dec(0 - n)
    ELSE IF n < 10 THEN <<48 + n>>
    ELSE Dec(n \div 10) \o <<48 + (n % 10)>>

\* the first n bytes of s, all of s when it is shorter
Take(s, n) == SubSeq(s, 1, IF n < Len(s) THEN n ELSE Len(s))

\* "Text editor -- version " EDITOR_VERSION
Welcome == <<84, 101, 120, 116, 32, 101, 100, 105, 116, 111, 114, 32, 45, 45, 32,
             118, 101, 114, 115, 105, 111, 110, 32, 48, 46, 49>>
\* "[No Name]", " - ", " lines ", "(modified)"
NoName == <<91, 78, 111, 32, 78, 97, 109, 101, 93>>
StatusDash == <<32, 45, 32>>
StatusLines == <<32, 108, 105, 110, 101, 115, 32>>
Modified == <<40, 109, 111, 100, 105, 102, 105, 101, 100, 41>>
\* "\x1b[K", "\r\n", "\x1b[7m", "\x1b[m", "\x1b[?25l", "\x1b[H", "\x1b[?25h"
ClearLine == <<ESC, 91, 75>>
CrLf == <<CR, NL>>
InvertColors == <<ESC, 91, 55, 109>>
ResetColors == <<ESC, 91, 109>>
HideCursor == <<ESC, 91, 63, 50, 53, 108>>
CursorHome == <<ESC, 91, 72>>
ShowCursor == <<ESC, 91, 63, 50, 53, 104>>

\* one pass of the loop of editorDrawRows: what it appends for screen row y
DrawRow(e, y) ==
    LET filerow == y + e.rowoff
    IN (IF filerow >= e.numrows
        THEN IF e.numrows = 0 /\ y = e.screenrows \div 3
             THEN LET welcomelen == IF Len(Welcome) > e.screencols
                                    THEN e.screencols ELSE Len(Welcome)
                      padding == (e.screencols - welcomelen) \div 2
                  IN (IF padding /= 0
                      THEN <<126>> \o [i \in 1..(padding - 1) |-> SPACE]
                      ELSE <<>>)
                     \o Take(Welcome, welcomelen)
             ELSE <<126>>
        ELSE LET r == e.row[filerow + 1]
                 len0 == r.rsize - e.coloff
                 len1 == IF len0 < 0 THEN 0 ELSE len0
                 len == IF len1 > e.screencols THEN e.screencols ELSE len1
             IN SubSeq(r.render, e.coloff + 1, e.coloff + len))
       \o ClearLine \o CrLf

RECURSIVE DrawRowsLoop(_, _)
DrawRowsLoop(e, y) ==
    IF y >= e.screenrows THEN <<>>
    ELSE DrawRow(e, y) \o DrawRowsLoop(e, y + 1)

editorDrawRows(e) == DrawRowsLoop(e, 0)

\* while (len < E.screencols) of editorDrawStatusBar
RECURSIVE StatusPad(_, _, _)
StatusPad(e, len, rstatus) ==
    IF ~(len < e.screencols) THEN <<>>
    ELSE IF e.screencols - len = Len(rstatus) THEN rstatus
    ELSE <<SPACE>> \o StatusPad(e, len + 1, rstatus)

editorDrawStatusBar(e) ==
    LET status == Take(IF e.filename /= NULL THEN e.filename ELSE NoName, 20)
                    \o StatusDash \o Dec(e.numrows) \o StatusLines
                    \o (IF e.dirty /= 0 THEN Modified ELSE <<>>)
        rstatus == Dec(e.cy + 1) \o <<47>> \o Dec(e.numrows)
        len == IF Len(status) > e.screencols THEN e.screencols ELSE Len(status)
    IN InvertColors \o Take(status, len) \o StatusPad(e, len, rstatus)
         \o ResetColors \o CrLf

\* the message bar after its "\x1b[K": the first `len` bytes of the formatted
\* message, when there is one and it is less than 5 seconds old
editorDrawMessageBar(e, elapsed) ==
    IF e.statusmsg.fmt /= "" /\ elapsed < 5
    THEN [fmt |-> e.statusmsg.fmt, args |-> e.statusmsg.args, len |-> e.screencols]
    ELSE [fmt |-> "", args |-> <<>>, len |-> 0]

\* the buffer editorRefreshScreen writes to the terminal, after its
\* editorScroll: the bytes before the message, the message, the bytes after
RefreshFrame(e, elapsed) ==
    [head |-> HideCursor \o CursorHome \o editorDrawRows(e)
                \o editorDrawStatusBar(e) \o ClearLine,
     message |-> editorDrawMessageBar(e, elapsed),
     tail |-> <<ESC, 91>> \o Dec((e.cy - e.rowoff) + 1) \o <<59>>
                \o Dec((e.rx - e.coloff) + 1) \o <<72>> \o ShowCursor]

(*********************************** input *********************************)

PromptFmt == "Save as : %s (ESC to cancel)"
WarnFmt == "WARNING!!! File has unsaved changes. Press Ctrl-Q %d more times to quit."

(* editorReadKey.  A read(STDIN_FILENO, &c, 1) gives <<b>>, one byte, or <<>>
   when the VTIME timeout runs out with no byte; `in` is what the coming
   reads give, and nothing arrives after its end. *)

\* char seq[3]
SEQ_LEN == 3

ReadAt(in, i) == IF i <= Len(in) THEN in[i] ELSE <<>>

\* (int) c of a char c holding byte b: the build decides whether char is signed
CharToInt(b, char_signed) == IF char_signed /\ b >= 128 THEN b - 256 ELSE b

\* mutant: the cases '5' and '6' are swapped
TildeSwitchSwapsPages(d) ==
    CASE d = 49 -> HOME_KEY
      [] d = 51 -> DEL_KEY
      [] d = 52 -> END_KEY
      [] d = 53 -> PAGE_DOWN
      [] d = 54 -> PAGE_UP
      [] d = 55 -> HOME_KEY
      [] d = 56 -> END_KEY
      [] OTHER -> ESC

\* ESC [ d ~ : switch (seq[1]), falling out to return '\x1b'
TildeSwitch(d) ==
    CASE d = 49 -> HOME_KEY
      [] d = 51 -> DEL_KEY
      [] d = 52 -> END_KEY
      [] d = 53 -> PAGE_UP
      [] d = 54 -> PAGE_DOWN
      [] d = 55 -> HOME_KEY
      [] d = 56 -> END_KEY
      [] OTHER -> ESC

\* ESC [ ch : switch (seq[1]) on 'A' 'B' 'C' 'D' 'H' 'F'
BracketSwitch(ch) ==
    CASE ch = 65 -> ARROW_UP
      [] ch = 66 -> ARROW_DOWN
      [] ch = 67 -> ARROW_RIGHT
      [] ch = 68 -> ARROW_LEFT
      [] ch = 72 -> HOME_KEY
      [] ch = 70 -> END_KEY
      [] OTHER -> ESC

\* ESC O ch : switch (seq[1]) on 'H' 'F'
OSwitch(ch) ==
    CASE ch = 72 -> HOME_KEY
      [] ch = 70 -> END_KEY
      [] OTHER -> ESC

\* the branch  if (c == '\x1b'): `in` starts after the ESC byte; the key
\* returned and the number of read calls made
EscapeSequence(in) ==
    LET s0 == ReadAt(in, 1)
        s1 == ReadAt(in, 2)
        s2 == ReadAt(in, 3)
    IN IF s0 = <<>> THEN [key |-> ESC, reads |-> 1]
       ELSE IF s1 = <<>> THEN [key |-> ESC, reads |-> 2]
       ELSE IF s0[1] = 91
            THEN IF s1[1] >= 48 /\ s1[1] <= 57
                 THEN IF s2 = <<>> THEN [key |-> ESC, reads |-> 3]
                      ELSE IF s2[1] = 126
                           THEN [key |-> TildeSwitch(s1[1]), reads |-> 3]
                           ELSE [key |-> ESC, reads |-> 3]
                 ELSE [key |-> BracketSwitch(s1[1]), reads |-> 2]
       ELSE IF s0[1] = 79
            THEN [key |-> OSwitch(s1[1]), reads |-> 2]
            ELSE [key |-> ESC, reads |-> 2]

\* mutant: a first continuation read that times out is tried once more
EscapeAfterEscRetries(in) ==
    IF Len(in) > 0 /\ ReadAt(in, 1) = <<>>
    THEN LET r == EscapeSequence(Tail(in))
         IN [key |-> r.key, reads |-> r.reads + 1]
    ELSE EscapeSequence(in)

\* the reads after the ESC byte
EscapeAfterEsc(in) == EscapeSequence(in)

\* the while loop: the index of the first read that gives a byte
RECURSIVE FirstByte(_, _)
FirstByte(in, i) ==
    IF in[i] /= <<>> THEN i ELSE FirstByte(in, i + 1)

\* [key, reads, from, rest]: the int returned, the number of reads made after
\* the first byte, the results of all reads from the first byte on, and what
\* is left for later reads
editorReadKey(in, char_signed) ==
    LET k == FirstByte(in, 1)
        c == in[k][1]
        after == SubSeq(in, k + 1, Len(in))
    IN IF c = ESC
       THEN LET r == EscapeAfterEsc(after)
            IN [key |-> r.key, reads |-> r.reads,
                from |-> <<in[k]>> \o [i \in 1..r.reads |-> ReadAt(after, i)],
                rest |-> SubSeq(after, r.reads + 1, Len(after))]
       ELSE [key |-> CharToInt(c, char_signed), reads |-> 0,
             from |-> <<in[k]>>, rest |-> after]

\* mutant: ARROW_LEFT at column 0 stays where it is (no wrap to the row above)
MoveSwitchNoWrap(e, key) ==
    LET hasrow == ~(e.cy >= e.numrows)
    IN CASE key = ARROW_UP ->
              IF e.cy /= 0 THEN [e EXCEPT !.cy = e.cy - 1] ELSE e
         [] key = ARROW_LEFT ->
              IF e.cx /= 0 THEN [e EXCEPT !.cx = e.cx - 1] ELSE e
         [] key = ARROW_DOWN ->
              IF e.cy < e.numrows THEN [e EXCEPT !.cy = e.cy + 1] ELSE e
         [] key = ARROW_RIGHT ->
              IF hasrow /\ e.cx < e.row[e.cy + 1].size
              THEN [e EXCEPT !.cx = e.cx + 1]
              ELSE IF hasrow /\ e.cx = e.row[e.cy + 1].size
                   THEN [e EXCEPT !.cy = e.cy + 1, !.cx = 0]
                   ELSE e
         [] OTHER -> e

\* the switch of editorMoveCursor
MoveSwitch(e, key) ==
    LET hasrow == ~(e.cy >= e.numrows)
    IN CASE key = ARROW_UP ->
              IF e.cy /= 0 THEN [e EXCEPT !.cy = e.cy - 1] ELSE e
         [] key = ARROW_LEFT ->
              IF e.cx /= 0 THEN [e EXCEPT !.cx = e.cx - 1]
              ELSE IF e.cy > 0
                   THEN [e EXCEPT !.cy = e.cy - 1, !.cx = e.row[e.cy].size]
                   ELSE e
         [] key = ARROW_DOWN ->
              IF e.cy < e.numrows THEN [e EXCEPT !.cy = e.cy + 1] ELSE e
         [] key = ARROW_RIGHT ->
              IF hasrow /\ e.cx < e.row[e.cy + 1].size
              THEN [e EXCEPT !.cx = e.cx + 1]
              ELSE IF hasrow /\ e.cx = e.row[e.cy + 1].size
                   THEN [e EXCEPT !.cy = e.cy + 1, !.cx = 0]
                   ELSE e
         [] OTHER -> e

\* mutant: past the last row the column is left as the switch left it
editorMoveCursorNoSnap(e, key) ==
    LET e1 == MoveSwitch(e, key)
        rowlen == IF e1.cy >= e1.numrows THEN e1.cx ELSE e1.row[e1.cy + 1].size
    IN IF e1.cx > rowlen THEN [e1 EXCEPT !.cx = rowlen] ELSE e1

editorMoveCursor(e, key) ==
    LET e1 == MoveSwitch(e, key)
        rowlen == IF e1.cy >= e1.numrows THEN 0 ELSE e1.row[e1.cy + 1].size
    IN IF e1.cx > rowlen THEN [e1 EXCEPT !.cx = rowlen] ELSE e1

\* while (times--) editorMoveCursor(key);
RECURSIVE MoveTimes(_, _, _)
MoveTimes(e, key, times) ==
    IF times = 0 THEN e
    ELSE MoveTimes(editorMoveCursor(e, key), key, times - 1)

\* mutant: PAGE_DOWN without  if (E.cy > E.numrows) E.cy = E.numrows
PageMoveNoClamp(e, c) ==
    LET e1 == IF c = PAGE_UP
              THEN [e EXCEPT !.cy = e.rowoff]
              ELSE [e EXCEPT !.cy = e.rowoff + e.screenrows - 1]
    IN MoveTimes(e1, IF c = PAGE_UP THEN ARROW_UP ELSE ARROW_DOWN, e.screenrows)

\* mutant: the single-step move is repeated one time too few
PageMoveOneShort(e, c) ==
    LET e1 == IF c = PAGE_UP
              THEN [e EXCEPT !.cy = e.rowoff]
              ELSE LET cy0 == e.rowoff + e.screenrows - 1
                   IN [e EXCEPT !.cy = IF cy0 > e.numrows THEN e.numrows ELSE cy0]
    IN MoveTimes(e1, IF c = PAGE_UP THEN ARROW_UP ELSE ARROW_DOWN, e.screenrows - 1)

\* case PAGE_UP / PAGE_DOWN of editorProcessKeypress
PageMove(e, c) ==
    LET e1 == IF c = PAGE_UP
              THEN [e EXCEPT !.cy = e.rowoff]
              ELSE LET cy0 == e.rowoff + e.screenrows - 1
                   IN [e EXCEPT !.cy = IF cy0 > e.numrows THEN e.numrows ELSE cy0]
    IN MoveTimes(e1, IF c = PAGE_UP THEN ARROW_UP ELSE ARROW_DOWN, e.screenrows)

\* case HOME_KEY / END_KEY
HomeEnd(e, c) ==
    IF c = HOME_KEY THEN [e EXCEPT !.cx = 0]
    ELSE IF e.cy < e.numrows THEN [e EXCEPT !.cx = e.row[e.cy + 1].size] ELSE e

\* mutant: DEL_KEY deletes like Backspace, without moving right first
DeleteKeyNeverMoves(e, c) ==
    editorDelChar(e)

\* mutant: every one of the three keys moves right first
DeleteKeyAlwaysMoves(e, c) ==
    editorDelChar(editorMoveCursor(e, ARROW_RIGHT))

\* case BACKSPACE / CTRL_KEY('h') / DEL_KEY
DeleteKey(e, c) ==
    editorDelChar(IF c = DEL_KEY THEN editorMoveCursor(e, ARROW_RIGHT) ELSE e)

\* editorSave from the open() on, the file system answering `result`
SaveResults == {"ok", "open", "ftruncate", "write"}

NoWrite == [result |-> "none", bytes |-> <<>>]

\* mutant: dirty is cleared before the file is opened, so also when it fails
editorSaveFileClearsFirst(e, result) ==
    LET s == editorRowsToString(e)
    IN IF result = "ok"
       THEN editorSetStatusMessage([e EXCEPT !.dirty = 0],
                                   "%d bytes written to disk", <<s.buflen>>)
       ELSE editorSetStatusMessage([e EXCEPT !.dirty = 0],
                                   "Can't save! I/O error: %s", <<>>)

editorSaveFile(e, result) ==
    LET s == editorRowsToString(e)
    IN IF result = "ok"
       THEN editorSetStatusMessage([e EXCEPT !.dirty = 0],
                                   "%d bytes written to disk", <<s.buflen>>)
       ELSE editorSetStatusMessage(e, "Can't save! I/O error: %s", <<>>)

\* what write(fd, buf, len) put into the file when every call succeeded
SaveBytes(e, result) ==
    LET s == editorRowsToString(e)
    IN [result |-> result,
        bytes |-> IF result = "ok" THEN SubSeq(s.buf, 1, s.buflen) ELSE <<>>]

TotalChars(e) == TotLenLoop(e, 0, 0) - e.numrows

(***************************** the key events ******************************)

\* the byte typed into the document (the default case); tabs come from the
\* loaded file
CharKeys == {97}
\* the file names typed into the prompt, and the keys that type them
PromptNames == { <<102>> }
NameKeys == {102}
IsNamePrefix(buf) ==
    \E n \in PromptNames : Len(buf) <= Len(n) /\ SubSeq(n, 1, Len(buf)) = buf
QuitKeys == {CTRL_Q, CTRL_C}
DeleteKeys == {BACKSPACE, CTRL_H, DEL_KEY}
ArrowKeys == {ARROW_UP, ARROW_RIGHT, ARROW_DOWN, ARROW_LEFT}
PageKeys == {PAGE_UP, PAGE_DOWN}
HomeEndKeys == {HOME_KEY, END_KEY}
NoopKeys == {CTRL_L, ESC}
IgnoredPromptKeys == {CTRL_Q, ARROW_UP}

\* mutant: the handler returns without restoring quit_times
CompletedNoReset(e) ==
    /\ prev' = "other"
    /\ written' = NoWrite
    /\ UNCHANGED <<quit_times, pc, promptbuf, aux>>
    /\ E' = editorRefreshScreen(e)

\* break; quit_times = EDITOR_QUIT_TIMES; then the next editorRefreshScreen
Completed(e) ==
    /\ quit_times' = EDITOR_QUIT_TIMES
    /\ prev' = "other"
    /\ written' = NoWrite
    /\ UNCHANGED <<pc, promptbuf, aux>>
    /\ E' = editorRefreshScreen(e)

KeyEnter ==
    /\ pc = "edit"
    /\ E.numrows < MaxRows /\ E.dirty < MaxDirty
    /\ Completed(editorInsertNewLine(E))

KeyQuitRefused(c) ==
    /\ pc = "edit"
    /\ E.dirty /= 0 /\ quit_times > 0
    /\ quit_times' = quit_times - 1
    /\ prev' = "refused"
    /\ written' = NoWrite
    /\ UNCHANGED <<pc, promptbuf, aux>>
    /\ E' = editorRefreshScreen(editorSetStatusMessage(E, WarnFmt, <<quit_times>>))

\* mutant: the quit keys exit whatever dirty and quit_times say
KeyQuitExitUnguarded(c) ==
    /\ pc = "edit"
    /\ pc' = "exited"
    /\ UNCHANGED <<E, quit_times, promptbuf, written, prev, aux>>

KeyQuitExit(c) ==
    /\ pc = "edit"
    /\ ~(E.dirty /= 0 /\ quit_times > 0)
    /\ pc' = "exited"
    /\ UNCHANGED <<E, quit_times, promptbuf, written, prev, aux>>

KeySave(result) ==
    /\ pc = "edit"
    /\ IF E.filename = NULL
       THEN /\ pc' = "prompt"
            /\ promptbuf' = <<>>
            /\ written' = NoWrite
            /\ UNCHANGED <<quit_times, prev, aux>>
            /\ E' = editorRefreshScreen(editorSetStatusMessage(E, PromptFmt, <<>>))
       ELSE /\ quit_times' = EDITOR_QUIT_TIMES
            /\ prev' = "other"
            /\ UNCHANGED <<pc, promptbuf, aux>>
            /\ written' = SaveBytes(E, result)
            /\ E' = editorRefreshScreen(editorSaveFile(E, result))

KeyHomeEnd(c) ==
    /\ pc = "edit"
    /\ Completed(HomeEnd(E, c))

KeyDelete(c) ==
    /\ pc = "edit"
    /\ E.dirty < MaxDirty
    /\ Completed(DeleteKey(E, c))

KeyPage(c) ==
    /\ pc = "edit"
    /\ Completed(PageMove(E, c))

KeyArrow(c) ==
    /\ pc = "edit"
    /\ Completed(editorMoveCursor(E, c))

KeyNoop(c) ==
    /\ pc = "edit"
    /\ Completed(E)

KeyDefault(c) ==
    /\ pc = "edit"
    /\ TotalChars(E) < MaxChars /\ E.dirty < MaxDirty
    /\ E.cy = E.numrows => E.numrows < MaxRows
    /\ Completed(editorInsertChar(E, c))

(* editorPrompt: one pass of its loop per key *)

PromptAgain(buf) ==
    /\ promptbuf' = buf
    /\ UNCHANGED <<quit_times, pc, written, prev, aux>>
    /\ E' = editorRefreshScreen(editorSetStatusMessage(E, PromptFmt, buf))

PromptErase(c) ==
    /\ pc = "prompt"
    /\ PromptAgain(IF Len(promptbuf) /= 0
                   THEN SubSeq(promptbuf, 1, Len(promptbuf) - 1)
                   ELSE promptbuf)

PromptCancel ==
    /\ pc = "prompt"
    /\ pc' = "edit"
    /\ promptbuf' = <<>>
    /\ written' = NoWrite
    /\ quit_times' = EDITOR_QUIT_TIMES
    /\ prev' = "other"
    /\ UNCHANGED aux
    /\ E' = editorRefreshScreen(editorSetStatusMessage(
               editorSetStatusMessage(E, "", <<>>), "Save Aborted", <<>>))

PromptEnter(result) ==
    /\ pc = "prompt"
    /\ IF Len(promptbuf) /= 0
       THEN LET e1 == [editorSetStatusMessage(E, "", <<>>) EXCEPT !.filename = promptbuf]
            IN /\ pc' = "edit"
               /\ promptbuf' = <<>>
               /\ quit_times' = EDITOR_QUIT_TIMES
               /\ prev' = "other"
               /\ UNCHANGED aux
               /\ written' = SaveBytes(e1, result)
               /\ E' = editorRefreshScreen(editorSaveFile(e1, result))
       ELSE PromptAgain(promptbuf)

iscntrl(c) == c < SPACE \/ c = BACKSPACE

PromptType(c) ==
    /\ pc = "prompt"
    /\ ~iscntrl(c) /\ c < 128
    /\ IsNamePrefix(Append(promptbuf, c))
    /\ PromptAgain(Append(promptbuf, c))

PromptIgnore(c) ==
    /\ pc = "prompt"
    /\ ~(~iscntrl(c) /\ c < 128)
    /\ PromptAgain(promptbuf)

(****************************** initial states *****************************)

\* editorReadKey has not returned yet
NoKey == [key |-> -1000, reads |-> 0, from |-> <<>>]

\* the small specifications' variables where they are not used
ExtraIdle == frame = <<>> /\ clock = 0 /\ before = <<>>
AuxIdle == file = <<>> /\ plain = <<>> /\ stdin = <<>> /\ decoded = NoKey /\ ExtraIdle

initEditor(rows, cols) ==
    [cx |-> 0, cy |-> 0, rx |-> 0, rowoff |-> 0, coloff |-> 0,
     screenrows |-> rows, screencols |-> cols,
     numrows |-> 0, row |-> <<>>, dirty |-> 0, filename |-> NULL,
     statusmsg |-> [fmt |-> "", args |-> <<>>]]

\* the terminal sizes main may be started in: <<E.screenrows, E.screencols>>
Viewports == { <<1, 1>>, <<2, 3>> }

\* the files main may be started on: a three-line file with a tab
ArgFiles == { <<NL, 97, TAB, NL, NL>> }
ArgName == <<102>>

HelpFmt == "HELP: CTRL+S = save | Ctrl+Q/C = quit"

\* main up to its first editorRefreshScreen, in a terminal of one of the sizes
InitIn(viewports) ==
    /\ \E vp \in viewports :
         \/ E = editorRefreshScreen(
                  editorSetStatusMessage(initEditor(vp[1], vp[2]), HelpFmt, <<>>))
         \/ \E f \in ArgFiles :
              E = editorRefreshScreen(
                    editorSetStatusMessage(
                        editorOpen(initEditor(vp[1], vp[2]), ArgName, f), HelpFmt, <<>>))
    /\ quit_times = EDITOR_QUIT_TIMES
    /\ pc = "edit"
    /\ promptbuf = <<>>
    /\ written = NoWrite
    /\ prev = "none"
    /\ AuxIdle

Init == InitIn(Viewports)

Next ==
    \/ KeyEnter
    \/ \E c \in QuitKeys : KeyQuitRefused(c)
    \/ \E c \in QuitKeys : KeyQuitExit(c)
    \/ \E result \in SaveResults : KeySave(result)
    \/ \E c \in HomeEndKeys : KeyHomeEnd(c)
    \/ \E c \in DeleteKeys : KeyDelete(c)
    \/ \E c \in PageKeys : KeyPage(c)
    \/ \E c \in ArrowKeys : KeyArrow(c)
    \/ \E c \in NoopKeys : KeyNoop(c)
    \/ \E c \in CharKeys : KeyDefault(c)
    \/ \E c \in DeleteKeys : PromptErase(c)
    \/ PromptCancel
    \/ \E result \in SaveResults : PromptEnter(result)
    \/ \E c \in NameKeys : PromptType(c)
    \/ \E c \in IgnoredPromptKeys : PromptIgnore(c)

Spec == Init /\ [][Next]_vars

(******************* a terminal with no row for the text *******************)

\* a terminal of two rows: E.screenrows -= 2 leaves 0
ZeroRowViewports == { <<0, 1>> }

InitZero == InitIn(ZeroRowViewports)

\* the cursor column lies on its row, so that editorScroll reads the row's
\* own bytes in editorRowCxToRx
ColumnOnRow(e) == e.cy < e.numrows => e.cx <= e.row[e.cy + 1].size

\* the handlers index E.row inside the array: reached with cy > numrows, or
\* with cy = numrows and cx /= 0, editorInsertChar, editorDelChar,
\* editorInsertNewLine and editorMoveCursor use E.row[cy] or E.row[cy - 1]
\* past the last row
OnDocument ==
    /\ E.cy <= E.numrows
    /\ E.cy = E.numrows => E.cx = 0
    /\ ColumnOnRow(E)

\* The key events, followed while the handlers stay inside E.row (what the
\* program does past the array is undefined, and so is the scroll after a
\* page move that leaves cx beyond the end of its row).
NextZero ==
    \/ OnDocument /\ KeyEnter
    \/ \E c \in QuitKeys : OnDocument /\ KeyQuitRefused(c)
    \/ \E c \in QuitKeys : OnDocument /\ KeyQuitExit(c)
    \/ \E result \in SaveResults : OnDocument /\ KeySave(result)
    \/ \E c \in HomeEndKeys : OnDocument /\ KeyHomeEnd(c)
    \/ \E c \in DeleteKeys : OnDocument /\ KeyDelete(c)
    \/ \E c \in PageKeys : OnDocument /\ ColumnOnRow(PageMove(E, c)) /\ KeyPage(c)
    \/ \E c \in ArrowKeys : OnDocument /\ KeyArrow(c)
    \/ \E c \in NoopKeys : OnDocument /\ KeyNoop(c)
    \/ \E c \in CharKeys : OnDocument /\ KeyDefault(c)
    \/ \E c \in DeleteKeys : OnDocument /\ PromptErase(c)
    \/ OnDocument /\ PromptCancel
    \/ \E result \in SaveResults : OnDocument /\ PromptEnter(result)
    \/ \E c \in NameKeys : OnDocument /\ PromptType(c)
    \/ \E c \in IgnoredPromptKeys : OnDocument /\ PromptIgnore(c)

SpecZero == InitZero /\ [][NextZero]_vars

(************************ editorScroll on its own **************************)

\* every byte sequence of at most n bytes over a letter and the tab
Lines(n) == UNION { [1..k -> {97, TAB}] : k \in 0..n }

\* states editorScroll may be entered in: any document of equal rows, any
\* valid cursor, any prior offsets, any viewport of at least 1 by 1
InitScroll ==
    /\ \E n \in 0..MaxRows, l \in Lines(MaxChars),
          rows \in 1..MaxScreen, cols \in 1..MaxScreen,
          ro \in 0..MaxOff, co \in 0..MaxOff :
         \E cy \in 0..n :
           \E cx \in 0..(IF cy < n THEN Len(l) ELSE 0) :
              E = [initEditor(rows, cols) EXCEPT
                     !.row = [i \in 1..n |-> NewRow(l)], !.numrows = n,
                     !.cx = cx, !.cy = cy, !.rowoff = ro, !.coloff = co]
    /\ quit_times = EDITOR_QUIT_TIMES
    /\ pc = "prior"
    /\ promptbuf = <<>>
    /\ written = NoWrite
    /\ prev = "none"
    /\ AuxIdle

ScrollStep ==
    /\ pc = "prior"
    /\ E' = editorScroll(E)
    /\ pc' = "scrolled"
    /\ UNCHANGED <<quit_times, promptbuf, written, prev, aux>>

NextScroll == ScrollStep

SpecScroll == InitScroll /\ [][NextScroll]_vars

(************************* the edits of a single row ***********************)

\* the bytes a row is made of: a letter, the tab and a byte above 127
RowBytes == {97, TAB, 255}
RowLines(n) == UNION { [1..k -> RowBytes] : k \in 0..n }

\* the same edits on a plain string of bytes
PlainInsert(str, at, ch) ==
    IF 0 <= at /\ at <= Len(str)
    THEN [i \in 1..(Len(str) + 1) |->
            IF i <= at THEN str[i] ELSE IF i = at + 1 THEN ch ELSE str[i - 1]]
    ELSE Append(str, ch)
PlainDelete(str, at) ==
    IF 0 <= at /\ at < Len(str)
    THEN [i \in 1..(Len(str) - 1) |-> IF i <= at THEN str[i] ELSE str[i + 1]]
    ELSE str

\* a document of one row, any row of at most MaxLine bytes
InitRow ==
    /\ \E l \in RowLines(MaxLine) :
          /\ E = [initEditor(1, 1) EXCEPT !.row = <<NewRow(l)>>, !.numrows = 1]
          /\ plain = l
    /\ quit_times = EDITOR_QUIT_TIMES
    /\ pc = "row"
    /\ promptbuf = <<>>
    /\ written = NoWrite
    /\ prev = "none"
    /\ file = <<>> /\ stdin = <<>> /\ decoded = NoKey /\ ExtraIdle

\* editorRowInsertChar(&E.row[0], at, c)
RowInsert(at, c) ==
    /\ pc = "row"
    /\ E.row[1].size < MaxLine /\ E.dirty < MaxEdits
    /\ E' = editorRowInsertChar(E, 0, at, c)
    /\ plain' = PlainInsert(plain, at, c)
    /\ prev' = IF at < 0 \/ at > E.row[1].size THEN "clamped" ELSE "inserted"
    /\ UNCHANGED <<quit_times, pc, promptbuf, written, file, stdin, decoded, extra>>

\* editorRowDeleteChar(&E.row[0], at)
RowDelete(at) ==
    /\ pc = "row"
    /\ E.dirty < MaxEdits
    /\ E' = editorRowDeleteChar(E, 0, at)
    /\ plain' = PlainDelete(plain, at)
    /\ prev' = IF at < 0 \/ at >= E.row[1].size THEN "ignored" ELSE "deleted"
    /\ UNCHANGED <<quit_times, pc, promptbuf, written, file, stdin, decoded, extra>>

\* the cursor is put on column cx of the row and editorScroll computes E.rx
RowScroll(cx) ==
    /\ pc = "row"
    /\ cx <= E.row[1].size
    /\ E' = editorScroll([E EXCEPT !.cx = cx])
    /\ UNCHANGED <<quit_times, pc, promptbuf, written, prev, plain, file, stdin, decoded, extra>>

NextRow ==
    \/ \E at \in (-1)..(MaxLine + 1), c \in RowBytes : RowInsert(at, c)
    \/ \E at \in (-1)..(MaxLine + 1) : RowDelete(at)
    \/ \E cx \in 0..MaxLine : RowScroll(cx)

SpecRow == InitRow /\ [][NextRow]_vars

(***************************** the key decoder *****************************)

\* the bytes tried after an ESC: ESC [ O ~ Z, the digits, A B C D F H
ContBytes == {ESC, 91, 79, 126, 90} \cup (48..57) \cup {65, 66, 67, 68, 70, 72}
ReadResults == {<<>>} \cup { <<b>> : b \in ContBytes }

\* what the terminal delivers: any single byte, at once or after a timeout;
\* or ESC, SEQ_LEN reads each giving a byte or timing out, and perhaps a
\* letter typed after them
Inputs ==
    { lead \o << <<b>> >> : lead \in {<<>>, << <<>> >>}, b \in 0..255 }
      \cup { << <<ESC>> >> \o cont \o tail :
                cont \in [1..SEQ_LEN -> ReadResults],
                tail \in {<<>>, << <<97>> >>} }

InitReadKey ==
    /\ stdin \in Inputs
    /\ decoded = NoKey
    /\ E = initEditor(1, 1)
    /\ quit_times = EDITOR_QUIT_TIMES
    /\ pc = "read"
    /\ promptbuf = <<>>
    /\ written = NoWrite
    /\ prev = "none"
    /\ file = <<>> /\ plain = <<>> /\ ExtraIdle

\* one call of editorReadKey, waiting until a byte arrives
ReadKey ==
    /\ pc = "read"
    /\ \E i \in 1..Len(stdin) : stdin[i] /= <<>>
    /\ \E char_signed \in BOOLEAN :
          LET r == editorReadKey(stdin, char_signed)
          IN /\ decoded' = [key |-> r.key, reads |-> r.reads, from |-> r.from]
             /\ stdin' = r.rest
    /\ UNCHANGED <<E, quit_times, pc, promptbuf, written, prev, file, plain, extra>>

NextReadKey == ReadKey

SpecReadKey == InitReadKey /\ [][NextReadKey]_vars

(******************** load a file and save it unedited *********************)

\* the bytes of the files tried: a letter, '\r' and '\n'
FileBytes == {97, CR, NL}
Files(n) == UNION { [1..k -> FileBytes] : k \in 0..n }

\* main before editorOpen(argv[1]), the file on disk being any of Files
InitFile ==
    /\ file \in Files(MaxFile)
    /\ \E vp \in Viewports : E = initEditor(vp[1], vp[2])
    /\ quit_times = EDITOR_QUIT_TIMES
    /\ pc = "start"
    /\ promptbuf = <<>>
    /\ written = NoWrite
    /\ prev = "none"
    /\ plain = <<>> /\ stdin = <<>> /\ decoded = NoKey /\ ExtraIdle

\* main: editorOpen(argv[1]), the help message, the first editorRefreshScreen
OpenFile ==
    /\ pc = "start"
    /\ pc' = "edit"
    /\ UNCHANGED <<quit_times, promptbuf, written, prev, aux>>
    /\ E' = editorRefreshScreen(
               editorSetStatusMessage(editorOpen(E, ArgName, file), HelpFmt, <<>>))

\* the only key pressed is Ctrl-S, and the file system accepts the write
NextFile ==
    \/ OpenFile
    \/ KeySave("ok")

SpecFile == InitFile /\ [][NextFile]_vars

(********************************* claims **********************************)

\* the raw bytes of line i (0-based) of a document state
Raw(e, i) == e.row[i + 1].chars

\* C1: after every key event the cursor satisfies 0 <= cy <= numLines, and
\* 0 <= cx <= length(line[cy].raw) whenever cy < numLines.
CursorInvariant ==
    /\ 0 <= E.cy /\ E.cy <= E.numrows
    /\ 0 <= E.cx
    /\ E.cy < E.numrows => E.cx <= Len(Raw(E, E.cy))

\* C1 witness: keys have been processed and the cursor sits at the end of a
\* non-empty last line, below a shorter line.
CursorInvariantWitness ==
    /\ pc = "edit" /\ prev = "other"
    /\ E.numrows >= 2 /\ E.cy = E.numrows - 1
    /\ E.cx = Len(Raw(E, E.cy)) /\ E.cx > Len(Raw(E, E.cy - 1))

\* C2: after editorScroll the rendered cursor lies in the viewport:
\* rowoff <= cy < rowoff + rows and coloff <= rx < coloff + cols, where
\* rx = cxToRx(line[cy], cx), and 0 when cy = numLines.
ScrollInvariant ==
    pc = "scrolled" =>
        /\ E.rx = (IF E.cy < E.numrows THEN editorRowCxToRx(E.row[E.cy + 1], E.cx) ELSE 0)
        /\ E.rowoff <= E.cy /\ E.cy < E.rowoff + E.screenrows
        /\ E.coloff <= E.rx /\ E.rx < E.coloff + E.screencols

\* C2 witness: a recompute that had to scroll down and right, past a tab.
ScrollInvariantWitness ==
    /\ pc = "scrolled"
    /\ E.rowoff > 0 /\ E.rowoff = E.cy - E.screenrows + 1
    /\ E.coloff > MaxOff /\ E.coloff = E.rx - E.screencols + 1
    /\ E.rx > E.cx

\* the bytes of every line, in order
RawLines(e) == [i \in 1..e.numrows |-> e.row[i].chars]

\* a step that is the Enter key / a Backspace or Ctrl-H key / the Delete key
EnterStep == KeyEnter
BackspaceStep == \E c \in {BACKSPACE, CTRL_H} : KeyDelete(c)
DeleteStep == KeyDelete(DEL_KEY)

\* C3: Enter at (cx, cy), cy < numLines, leaves the first cx bytes in line cy,
\* puts the remaining bytes in a new line cy+1, leaves every other line's
\* content unchanged, adds exactly one line and puts the cursor at (0, cy+1);
\* a 3-line document with Enter at (2, 1) ends with 4 lines and cursor (0, 2).
EnterSplitsAtCursor ==
    [][ (E.cy < E.numrows /\ EnterStep) =>
          LET old == Raw(E, E.cy)
          IN /\ E'.numrows = E.numrows + 1
             /\ Len(E'.row) = Len(E.row) + 1
             /\ Raw(E', E.cy) = SubSeq(old, 1, E.cx)
             /\ Raw(E', E.cy + 1) = SubSeq(old, E.cx + 1, Len(old))
             /\ E.cx = 0 => (Raw(E', E.cy) = <<>> /\ Raw(E', E.cy + 1) = old)
             /\ \A i \in 0..(E.cy - 1) : Raw(E', i) = Raw(E, i)
             /\ \A i \in (E.cy + 1)..(E.numrows - 1) : Raw(E', i + 1) = Raw(E, i)
             /\ E'.cx = 0 /\ E'.cy = E.cy + 1
             /\ (E.numrows = 3 /\ E.cx = 2 /\ E.cy = 1) =>
                    (E'.numrows = 4 /\ E'.cx = 0 /\ E'.cy = 2)
      ]_vars

\* C3 witness: the state Enter at (2, 1) of the loaded 3-line file leaves:
\* four lines, the two bytes kept in line 1, the cursor at (0, 2).
EnterSplitsWitness ==
    /\ pc = "edit" /\ prev = "other" /\ E.dirty = 1
    /\ E.numrows = 4 /\ E.cx = 0 /\ E.cy = 2
    /\ RawLines(E) = << <<>>, <<97, TAB>>, <<>>, <<>> >>

\* C4: Backspace or Ctrl-H at (0, k), 0 < k < numLines, makes line k-1 the old
\* line k-1 followed by the old line k, removes line k (the lines after it move
\* up by one), takes exactly one line off the count, and puts the cursor at
\* (old length of line k-1, k-1).
BackspaceJoinsLines ==
    [][ (E.cx = 0 /\ 0 < E.cy /\ E.cy < E.numrows /\ BackspaceStep) =>
          /\ E'.numrows = E.numrows - 1
          /\ Len(E'.row) = Len(E.row) - 1
          /\ Raw(E', E.cy - 1) = Raw(E, E.cy - 1) \o Raw(E, E.cy)
          /\ \A i \in 0..(E.cy - 2) : Raw(E', i) = Raw(E, i)
          /\ \A i \in (E.cy + 1)..(E.numrows - 1) : Raw(E', i - 1) = Raw(E, i)
          /\ E'.cx = Len(Raw(E, E.cy - 1)) /\ E'.cy = E.cy - 1
      ]_vars

\* C4 witness: the state a join of two non-empty lines leaves: the cursor
\* inside the joined line, a line after it, dirty raised by the two calls.
BackspaceJoinsWitness ==
    /\ pc = "edit" /\ prev = "other" /\ E.dirty = 2
    /\ E.numrows = 2 /\ E.cy = 0 /\ E.cx = 1
    /\ RawLines(E) = << <<97, 97>>, <<>> >>

\* C5: Backspace or Ctrl-H at (0, 0) leaves every line, the line count, the
\* cursor and the dirty counter unchanged, for every document, the empty one
\* included.
BackspaceAtStartNoop ==
    [][ (E.cx = 0 /\ E.cy = 0 /\ BackspaceStep) =>
          /\ E'.row = E.row /\ E'.numrows = E.numrows
          /\ E'.cx = E.cx /\ E'.cy = E.cy
          /\ E'.dirty = E.dirty
      ]_vars

\* C5 witness: Backspace at (0, 0) of a modified non-empty document, right
\* after a refused quit: the key has been handled (the quit counter is back).
BackspaceAtStartWitness ==
    /\ pc = "edit" /\ prev = "other" /\ quit_times = EDITOR_QUIT_TIMES
    /\ E.cx = 0 /\ E.cy = 0 /\ E.numrows > 0 /\ E.dirty = 1
    /\ Len(Raw(E, 0)) > 0
    /\ E.statusmsg.args = <<EDITOR_QUIT_TIMES>>

\* the cursor is at the end of the document
AtEndOfDocument(e) ==
    \/ e.cy = e.numrows
    \/ e.cy = e.numrows - 1 /\ e.cx = Len(Raw(e, e.cy))

\* C6: Delete at the end of the document (end of the last line, or the
\* past-last-line position) leaves every line, the line count, the dirty
\* counter and the cursor position unchanged.
DeleteAtEndNoop ==
    [][ (AtEndOfDocument(E) /\ DeleteStep) =>
          /\ E'.row = E.row /\ E'.numrows = E.numrows
          /\ E'.dirty = E.dirty
          /\ E'.cx = E.cx /\ E'.cy = E.cy
      ]_vars

\* a step that handles a quit command (Ctrl-Q or Ctrl-C)
QuitStep == \E c \in QuitKeys : KeyQuitRefused(c) \/ KeyQuitExit(c)

OtherKeyCompletes == pc \in {"edit", "prompt"} /\ pc' = "edit" /\ ~QuitStep

\* C8: after a refused quit, any key event other than a quit command restores
\* the quit counter to its initial value, so that a later quit on a still-dirty
\* document is refused again.
QuitCounterReset ==
    [][ /\ OtherKeyCompletes => quit_times' = EDITOR_QUIT_TIMES
        /\ (QuitStep /\ E.dirty /= 0 /\ prev /= "refused") =>
              (pc' = "edit" /\ prev' = "refused")
      ]_vars

\* C8 witness: a quit was refused on a dirty document and a cursor key came
\* after it: the warning is still shown and the counter is back at its
\* initial value.
QuitCounterResetWitness ==
    /\ pc = "edit" /\ prev = "other" /\ E.dirty /= 0
    /\ E.statusmsg.fmt = WarnFmt
    /\ quit_times = EDITOR_QUIT_TIMES
    /\ E.cy = E.numrows /\ E.numrows > 1

\* a save command ends with the file system answering `result`
SaveEnds(result) ==
    /\ written'.result = result
    /\ \/ pc = "edit" /\ E.filename /= NULL /\ KeySave(result)
       \/ pc = "prompt" /\ Len(promptbuf) /= 0 /\ PromptEnter(result)

\* C9: a save whose write succeeds sets dirty to 0 and the status message to
\* the written byte count, the bytes written being serialize() of the lines; a
\* save whose open, truncate or write fails sets an error message and leaves
\* dirty and the document unchanged; a save whose prompt is cancelled writes
\* nothing, sets "Save Aborted" and leaves dirty and the document unchanged.
SaveOutcomes ==
    [][ /\ SaveEnds("ok") =>
              /\ E'.dirty = 0
              /\ written'.result = "ok"
              /\ written'.bytes = editorRowsToString(E).buf
              /\ E'.statusmsg = [fmt |-> "%d bytes written to disk",
                                 args |-> <<Len(written'.bytes)>>]
              /\ E'.row = E.row /\ E'.numrows = E.numrows
        /\ \A result \in SaveResults \ {"ok"} :
              SaveEnds(result) =>
                /\ E'.statusmsg.fmt = "Can't save! I/O error: %s"
                /\ written'.bytes = <<>>
                /\ E'.dirty = E.dirty
                /\ E'.row = E.row /\ E'.numrows = E.numrows
        /\ PromptCancel =>
              /\ written' = NoWrite
              /\ E'.statusmsg = [fmt |-> "Save Aborted", args |-> <<>>]
              /\ E'.dirty = E.dirty
              /\ E'.row = E.row /\ E'.numrows = E.numrows
      ]_vars

\* C9 witness: a modified document failed to save under the name typed into
\* the prompt: the error is shown and dirty is still set.
SaveOutcomesWitness ==
    /\ pc = "edit" /\ written.result = "write"
    /\ E.statusmsg.fmt = "Can't save! I/O error: %s"
    /\ E.dirty = 2 /\ E.numrows = 1 /\ E.filename \in PromptNames

\* the offset of line i (0-based) in the serialized document
RECURSIVE LineOffset(_, _)
LineOffset(e, i) ==
    IF i = 0 THEN 0 ELSE LineOffset(e, i - 1) + Len(Raw(e, i - 1)) + 1

\* C10: serialize() is the concatenation, in line order, of each line's raw
\* bytes followed by one '\n' (also after the last line); the reported length
\* is the sum over all lines of length(raw) + 1; no lines give zero bytes.
SerializeIsLinesWithNewlines ==
    LET s == editorRowsToString(E)
    IN /\ s.buflen = LineOffset(E, E.numrows)
       /\ Len(s.buf) = s.buflen
       /\ \A i \in 0..(E.numrows - 1) :
            /\ \A j \in 1..Len(Raw(E, i)) : s.buf[LineOffset(E, i) + j] = Raw(E, i)[j]
            /\ s.buf[LineOffset(E, i) + Len(Raw(E, i)) + 1] = NL
       /\ E.numrows = 0 => s.buf = <<>>

\* C10 witness: a document with an empty last line after a non-empty one has
\* been serialized and written.
SerializeWitness ==
    /\ written.result = "ok"
    /\ E.numrows >= 2 /\ Len(Raw(E, E.numrows - 1)) = 0 /\ Len(Raw(E, 0)) = MaxChars
    /\ written.bytes = Raw(E, 0) \o <<NL>> \o [i \in 1..(E.numrows - 1) |-> NL]

\* every line of the file ends with a line terminator
EveryLineTerminated(f) == Len(f) = 0 \/ f[Len(f)] = NL

\* C11: for every file content in which every line ends with a line
\* terminator, loading it and saving it with no edit in between writes bytes
\* identical to the file content.
LoadSaveRoundTrip ==
    (written.result = "ok" /\ EveryLineTerminated(file)) => written.bytes = file

\* C12: after every finite sequence of insertChar(at, ch) and deleteChar(at)
\* calls on a line, with any integer at (insert clamps an out-of-range at to
\* the line length, delete ignores it), the line's raw content and size equal
\* the result of the same edits on a plain sequence of bytes.
RowEqualsPlainString ==
    pc = "row" =>
        /\ SubSeq(E.row[1].chars, 1, E.row[1].size) = plain
        /\ Len(E.row[1].chars) = E.row[1].size
        /\ E.row[1].size = Len(plain)

\* C12 witness: after a delete and more edits, the latest one an insert whose
\* out-of-range column was clamped: the byte went to the end of the line.
RowEqualsPlainWitness ==
    /\ pc = "row" /\ prev = "clamped" /\ E.dirty = MaxEdits
    /\ E.row[1].size = 2 /\ plain = <<255, TAB>>

\* C14: cxToRx is non-decreasing in cx over 0..length(raw), and on a line
\* with no tab byte cxToRx(line, cx) = cx for every 0 <= cx <= length(raw).
CxToRxMonotone ==
    pc = "row" =>
        LET r == E.row[1]
        IN /\ \A a \in 0..r.size : \A b \in a..r.size :
                  editorRowCxToRx(r, a) <= editorRowCxToRx(r, b)
           /\ (\A i \in 1..r.size : r.chars[i] /= TAB) =>
                  \A cx \in 0..r.size : editorRowCxToRx(r, cx) = cx

\* C14 witness: the cursor is at the end of an edited line of a tab, a
\* letter and a tab, and the scroll has computed rx = 16 for cx = 3.
CxToRxMonotoneWitness ==
    /\ pc = "row" /\ prev = "inserted" /\ E.row[1].chars = <<TAB, 97, TAB>>
    /\ E.cx = 3 /\ E.rx = 2 * EDITOR_TAB_LEN

\* the tab expansion of a byte string: a tab becomes the 1..8 spaces that
\* take the next byte to a multiple of the tab width, other bytes are copied
RECURSIVE TabExpand(_)
TabExpand(raw) ==
    IF raw = <<>> THEN <<>>
    ELSE LET out == TabExpand(SubSeq(raw, 1, Len(raw) - 1))
             ch == raw[Len(raw)]
         IN IF ch = TAB
            THEN out \o [k \in 1..(EDITOR_TAB_LEN - (Len(out) % EDITOR_TAB_LEN)) |-> SPACE]
            ELSE Append(out, ch)

\* C13: after load and after every key event, every line's rendered form is
\* the tab expansion (tab width 8) of its current raw content, and rsize
\* equals cxToRx(line, length(raw)).
RenderedNeverStale ==
    \A i \in 1..E.numrows :
        LET r == E.row[i]
        IN /\ r.render = TabExpand(r.chars)
           /\ r.rsize = editorRowCxToRx(r, Len(r.chars))
           /\ r.rsize = Len(r.render)

\* C13 witness: Enter has split the line "a<TAB>" between its two bytes: the
\* line cut short renders as one byte, the new line as eight spaces.
RenderedNeverStaleWitness ==
    /\ pc = "edit" /\ prev = "other" /\ E.dirty = 1
    /\ RawLines(E) = << <<>>, <<97>>, <<TAB>>, <<>> >>
    /\ E.row[2].rsize = 1 /\ E.row[3].rsize = EDITOR_TAB_LEN

\* editorReadKey has returned after reading an ESC byte
EscapeRead == decoded.from /= <<>> /\ decoded.from[1] = <<ESC>>

\* the documented decode table, on the bytes that follow the ESC
DecodeTable(b) ==
    CASE b \in { <<91, 49, 126>>, <<91, 55, 126>>, <<91, 72>>, <<79, 72>> } -> HOME_KEY
      [] b = <<91, 51, 126>> -> DEL_KEY
      [] b \in { <<91, 52, 126>>, <<91, 56, 126>>, <<91, 70>>, <<79, 70>> } -> END_KEY
      [] b = <<91, 53, 126>> -> PAGE_UP
      [] b = <<91, 54, 126>> -> PAGE_DOWN
      [] b = <<91, 65>> -> ARROW_UP
      [] b = <<91, 66>> -> ARROW_DOWN
      [] b = <<91, 67>> -> ARROW_RIGHT
      [] b = <<91, 68>> -> ARROW_LEFT
      [] OTHER -> ESC

\* C15: for every fully delivered byte sequence starting with ESC,
\* editorReadKey returns Home for ESC[1~ ESC[7~ ESC[H ESC O H, Delete for
\* ESC[3~, End for ESC[4~ ESC[8~ ESC[F ESC O F, PageUp for ESC[5~, PageDown
\* for ESC[6~, Up/Down/Right/Left for ESC[A/B/C/D, and the plain escape key
\* for every other continuation.
EscapeDecodeTable ==
    (EscapeRead /\ \A i \in 2..Len(decoded.from) : decoded.from[i] /= <<>>) =>
        decoded.key = DecodeTable([i \in 1..(Len(decoded.from) - 1) |-> decoded.from[i + 1][1]])

\* C15 witness: ESC [ 7 ~ has been decoded as Home, the letter typed after it
\* still waiting to be read.
EscapeDecodeWitness ==
    /\ decoded.from = << <<ESC>>, <<91>>, <<55>>, <<126>> >>
    /\ decoded.key = HOME_KEY
    /\ stdin = << <<97>> >>

\* C16: once the ESC byte is read, a continuation read that gives no byte
\* makes the decoder return the plain escape key; it returns after at most
\* three further reads (each ended by the read timeout); a lone ESC is never
\* reported as another key.
PartialEscapeDegrades ==
    EscapeRead =>
        /\ decoded.reads <= 3
        /\ decoded.reads = Len(decoded.from) - 1
        /\ (\E i \in 2..Len(decoded.from) : decoded.from[i] = <<>>) => decoded.key = ESC

\* C16 witness: ESC [ 1 arrived and the third read timed out: plain escape
\* after three reads, the bytes that came later left for the next call.
PartialEscapeWitness ==
    /\ decoded.from = << <<ESC>>, <<91>>, <<49>>, <<>> >>
    /\ decoded.key = ESC /\ decoded.reads = 3
    /\ stdin = << <<97>> >>

\* C17: for every input byte b in 0..255 other than 0x1B, editorReadKey
\* returns the integer b itself, a value in 0..255.
LiteralByteDecoding ==
    (decoded.from /= <<>> /\ decoded.from[1] /= <<ESC>>) =>
        /\ decoded.key = decoded.from[1][1]
        /\ 0 <= decoded.key /\ decoded.key <= 255

\* C18: for every terminal size, the viewport with rows = 0 included, after
\* any sequence of key events each followed by the scroll recompute, every
\* line the editor reads or writes has an index in 0..numLines-1 (the
\* handlers index E.row by cy and cy - 1 and tell the past-last-line position
\* only by cy = numLines, where the split of Enter needs cx = 0), and with
\* rows = 0 rowOffset does not exceed cy.
NoOutOfBoundsLine ==
    /\ E.cy <= E.numrows
    /\ E.cy = E.numrows => E.cx = 0
    /\ E.screenrows = 0 => E.rowoff <= E.cy

LineLen(e, cy) == IF cy < e.numrows THEN Len(Raw(e, cy)) ELSE 0

\* where the claim says an arrow key takes the cursor: <<cx, cy>>
ArrowTarget(e, c) ==
    LET up == IF e.cy = 0 THEN e.cy ELSE e.cy - 1
        down == IF e.cy = e.numrows THEN e.cy ELSE e.cy + 1
        min(a, b) == IF a < b THEN a ELSE b
    IN CASE c = ARROW_LEFT ->
              IF e.cx > 0 THEN <<e.cx - 1, e.cy>>
              ELSE IF e.cy > 0 THEN <<LineLen(e, e.cy - 1), e.cy - 1>>
              ELSE <<e.cx, e.cy>>
         [] c = ARROW_RIGHT ->
              IF e.cy = e.numrows THEN <<e.cx, e.cy>>
              ELSE IF e.cx < LineLen(e, e.cy) THEN <<e.cx + 1, e.cy>>
              ELSE <<0, e.cy + 1>>
         [] c = ARROW_UP -> <<min(e.cx, LineLen(e, up)), up>>
         [] c = ARROW_DOWN -> <<min(e.cx, LineLen(e, down)), down>>

\* C20: Left decrements cx, at cx = 0 goes to the end of the line above, at
\* (0,0) does nothing; Right increments cx, at the end of a line goes to
\* (0, cy+1), at cy = numLines does nothing; Up decrements cy unless cy = 0;
\* Down increments cy unless cy = numLines; after Up or Down cx is the
\* smaller of the old cx and the new line's length (0 at cy = numLines).
ArrowKeyMoves ==
    [][ \A c \in ArrowKeys :
          KeyArrow(c) => <<E'.cx, E'.cy>> = ArrowTarget(E, c)
      ]_vars

\* C20 witness: the cursor has come with the arrows to the end of the line
\* "a<TAB>" of the unmodified file, in the terminal of one column, and the
\* view has followed it.
ArrowKeyMovesWitness ==
    /\ pc = "edit" /\ prev = "other" /\ E.dirty = 0
    /\ E.screencols = 1 /\ E.cy = 1 /\ E.cx = 2 /\ Len(Raw(E, 1)) = 2
    /\ E.rowoff = 1 /\ E.coloff = EDITOR_TAB_LEN

\* C25: with a viewport of at least one row, in every state reached by key
\* events the cursor on the past-last-line position (cy = numrows) is in
\* column 0, so Enter and a typed byte there never work at a nonzero column
PastLastLineColumn ==
    E.cy = E.numrows => E.cx = 0

\* the cursor was moved to the past-last-line position of an edited document
PastLastLineColumnWitness ==
    /\ E.screenrows >= 1
    /\ E.numrows >= 2 /\ E.cy = E.numrows /\ E.cx = 0
    /\ E.row[E.numrows].size > 0
    /\ E.dirty > 0

\* the line a page key ends on, as the claim gives it
PageTargetCy(e, c) ==
    IF c = PAGE_UP
    THEN (IF e.rowoff - e.screenrows > 0 THEN e.rowoff - e.screenrows ELSE 0)
    ELSE (IF e.rowoff + 2 * e.screenrows - 1 < e.numrows
          THEN e.rowoff + 2 * e.screenrows - 1 ELSE e.numrows)

\* the line the k-th single-step move of a page key lands on
PageLanding(e, c, k) ==
    IF c = PAGE_UP
    THEN (IF e.rowoff - k > 0 THEN e.rowoff - k ELSE 0)
    ELSE (IF e.rowoff + e.screenrows - 1 + k < e.numrows
          THEN e.rowoff + e.screenrows - 1 + k ELSE e.numrows)

SmallestOf(S) == CHOOSE m \in S : \A n \in S : m <= n

\* C22 as stated: Page Up ends with cy = max(0, rowoff - rows), Page Down
\* with cy = min(numLines, rowoff + 2*rows - 1); in both cases cx ends as
\* min(old cx, length of the new line), and the lines and dirty are unchanged
PageMovesToNewLine ==
    [][ \A c \in PageKeys :
          KeyPage(c) =>
            /\ E'.cy = PageTargetCy(E, c)
            /\ E'.cx = SmallestOf({E.cx, LineLen(E, PageTargetCy(E, c))})
            /\ RawLines(E') = RawLines(E) /\ E'.dirty = E.dirty
      ]_vars

\* C22 amended: the same, but cx ends as the smallest of the old cx and the
\* lengths of all the lines the `rows` single-step moves land on (length 0
\* at cy = numLines), the last of which is the new line
PageMovesThroughLines ==
    [][ \A c \in PageKeys :
          KeyPage(c) =>
            /\ E'.cy = PageTargetCy(E, c)
            /\ E'.cx = SmallestOf({E.cx} \cup
                                  { LineLen(E, PageLanding(E, c, k)) :
                                      k \in 1..E.screenrows })
            /\ RawLines(E') = RawLines(E) /\ E'.dirty = E.dirty
      ]_vars

\* C22 witness: Page Up in the viewport of two rows took the cursor from
\* column 1 of "a" over the empty line to column 0 of the one-byte line 1
PageMovesWitness ==
    /\ pc = "edit" /\ E.screenrows = 2 /\ E.numrows = 4
    /\ E.cy = 1 /\ E.cx = 0 /\ E.rowoff = 1
    /\ LineLen(E, 1) = 1 /\ LineLen(E, 2) = 0 /\ LineLen(E, 3) = 1

\* a step that is a cursor-only key: an arrow, Home, End, Page Up, Page Down
CursorKeyStep ==
    \/ \E c \in ArrowKeys : KeyArrow(c)
    \/ \E c \in HomeEndKeys : KeyHomeEnd(c)
    \/ \E c \in PageKeys : KeyPage(c)

\* C28: dirty = 0 implies that the lines are those of the most recent load or
\* successful save: a key event that is not a successful save ends with
\* dirty = 0 only if dirty was 0 before it and it changed no line (main
\* starts right after the load); every key event that changes a line or the
\* line count leaves dirty nonzero; the cursor-only keys leave the lines and
\* dirty unchanged.
DirtyTracksChange ==
    [][ /\ (E'.dirty = 0 /\ ~SaveEnds("ok")) =>
              (E.dirty = 0 /\ RawLines(E') = RawLines(E))
        /\ RawLines(E') /= RawLines(E) => E'.dirty /= 0
        /\ (pc = "edit" /\ CursorKeyStep) =>
              (RawLines(E') = RawLines(E) /\ E'.dirty = E.dirty)
      ]_vars

\* C28 witness: a line was typed and saved, so dirty is 0 again on lines that
\* are not the loaded ones, and the cursor was then moved off that line
DirtyTracksChangeWitness ==
    /\ pc = "edit" /\ E.dirty = 0 /\ E.filename /= NULL
    /\ E.numrows = 1 /\ Raw(E, 0) = <<97>>
    /\ E.cy = 1

\* C29: a save command that fails at open, truncate or write, or whose
\* filename prompt is cancelled, leaves the document, the cursor, the dirty
\* counter and the filename exactly as they were: a filename unset before
\* the failed save is still unset after it.
FailedSaveKeepsFilename ==
    [][ ((\E result \in SaveResults \ {"ok"} : SaveEnds(result)) \/ PromptCancel) =>
          /\ E'.row = E.row /\ E'.numrows = E.numrows
          /\ E'.cx = E.cx /\ E'.cy = E.cy
          /\ E'.dirty = E.dirty
          /\ E'.filename = E.filename
      ]_vars

(********************** the buffer operations by index **********************)

\* the lines the documents are made of: empty, a letter, a tab and a letter
DocLines == { <<>>, <<97>>, <<TAB, 97>> }
Docs == UNION { [1..n -> DocLines] : n \in 0..MaxRows }

\* any document of at most MaxRows lines, not modified
InitLines ==
    /\ \E d \in Docs :
          E = [initEditor(1, 1) EXCEPT
                 !.row = [i \in 1..Len(d) |-> NewRow(d[i])], !.numrows = Len(d)]
    /\ quit_times = EDITOR_QUIT_TIMES
    /\ pc = "lines"
    /\ promptbuf = <<>>
    /\ written = NoWrite
    /\ prev = "none"
    /\ AuxIdle

\* editorInsertRow(at, s, len)
InsertLine(at, s) ==
    /\ pc = "lines"
    /\ E.numrows < MaxRows /\ E.dirty < MaxEdits
    /\ prev' = (IF at < 0 \/ at > E.numrows THEN "absorbed"
                ELSE IF at < E.numrows THEN "shifted" ELSE "appended")
    /\ E' = editorInsertRow(E, at, s)
    /\ UNCHANGED <<quit_times, pc, promptbuf, written, aux>>

\* editorDelRow(at)
DeleteLine(at) ==
    /\ pc = "lines"
    /\ E.dirty < MaxEdits
    /\ prev' = (IF at < 0 \/ at >= E.numrows THEN "absorbed" ELSE "deleted")
    /\ E' = editorDelRow(E, at)
    /\ UNCHANGED <<quit_times, pc, promptbuf, written, aux>>

\* editorRowDeleteChar(&E.row[ri], at)
DeleteChar(ri, at) ==
    /\ pc = "lines"
    /\ ri < E.numrows /\ E.dirty < MaxEdits
    /\ prev' = (IF at < 0 \/ at >= E.row[ri + 1].size THEN "absorbed" ELSE "deleted")
    /\ E' = editorRowDeleteChar(E, ri, at)
    /\ UNCHANGED <<quit_times, pc, promptbuf, written, aux>>

NextLines ==
    \/ \E at \in (-1)..(MaxRows + 1), s \in DocLines : InsertLine(at, s)
    \/ \E at \in (-1)..(MaxRows + 1) : DeleteLine(at)
    \/ \E ri \in 0..(MaxRows - 1), at \in (-1)..(MaxChars + 1) : DeleteChar(ri, at)

SpecLines == InitLines /\ [][NextLines]_vars

\* C23: insertLine(at) with at < 0 or at > numLines, deleteLine(at) with
\* at < 0 or at >= numLines and deleteChar(line, at) with at < 0 or
\* at >= length(line) leave every line, the line count and dirty unchanged;
\* an in-range insertLine puts the new line at index at with the old lines
\* at..N-1 moved to at+1..N, an in-range deleteLine removes index at with the
\* old lines at+1..N-1 moved to at..N-2, and each adds one to dirty.
OutOfRangeAbsorbed ==
    [][ LET N == E.numrows
            same == E'.row = E.row /\ E'.numrows = N /\ E'.dirty = E.dirty
        IN
        /\ \A at \in (-1)..(MaxRows + 1), s \in DocLines :
              InsertLine(at, s) =>
                IF at < 0 \/ at > N THEN same
                ELSE /\ E'.numrows = N + 1 /\ E'.dirty = E.dirty + 1
                     /\ Raw(E', at) = s
                     /\ \A i \in 0..(at - 1) : E'.row[i + 1] = E.row[i + 1]
                     /\ \A i \in at..(N - 1) : E'.row[i + 2] = E.row[i + 1]
        /\ \A at \in (-1)..(MaxRows + 1) :
              DeleteLine(at) =>
                IF at < 0 \/ at >= N THEN same
                ELSE /\ E'.numrows = N - 1 /\ E'.dirty = E.dirty + 1
                     /\ \A i \in 0..(at - 1) : E'.row[i + 1] = E.row[i + 1]
                     /\ \A i \in (at + 1)..(N - 1) : E'.row[i] = E.row[i + 1]
        /\ \A ri \in 0..(MaxRows - 1), at \in (-1)..(MaxChars + 1) :
              (DeleteChar(ri, at) /\ (at < 0 \/ at >= Len(Raw(E, ri)))) => same
      ]_vars

\* C23 witness: a line was inserted in front of the two lines of an
\* unmodified document, which moved down by one
OutOfRangeAbsorbedWitness ==
    /\ pc = "lines" /\ prev = "shifted" /\ E.dirty = 1
    /\ E.numrows = 3 /\ RawLines(E) = << <<97>>, <<>>, <<TAB, 97>> >>

(********************* an insertion and then Backspace **********************)

\* what the second key is to bring back: the lines and the cursor
Snapshot(e) == [lines |-> [i \in 1..e.numrows |-> e.row[i].chars],
                cx |-> e.cx, cy |-> e.cy]

\* any document, the empty one included, with the cursor anywhere valid, the
\* past-last-line position included, after a refresh
InitUndo ==
    /\ \E d \in Docs :
         \E cy \in 0..Len(d) :
           \E cx \in 0..(IF cy < Len(d) THEN Len(d[cy + 1]) ELSE 0) :
              E = editorRefreshScreen(
                    [initEditor(2, 3) EXCEPT
                       !.row = [i \in 1..Len(d) |-> NewRow(d[i])],
                       !.numrows = Len(d), !.cx = cx, !.cy = cy])
    /\ before = Snapshot(E)
    /\ quit_times = EDITOR_QUIT_TIMES
    /\ pc = "start"
    /\ promptbuf = <<>>
    /\ written = NoWrite
    /\ prev = "none"
    /\ file = <<>> /\ plain = <<>> /\ stdin = <<>> /\ decoded = NoKey
    /\ frame = <<>> /\ clock = 0

\* case '\r' of editorProcessKeypress, and the next refresh
UndoEnter ==
    /\ pc = "start"
    /\ pc' = "inserted"
    /\ prev' = "enter"
    /\ E' = editorRefreshScreen(editorInsertNewLine(E))
    /\ UNCHANGED <<quit_times, promptbuf, written, file, plain, stdin, decoded,
                   frame, clock, before>>

\* the default case of editorProcessKeypress, and the next refresh
UndoType(c) ==
    /\ pc = "start"
    /\ pc' = "inserted"
    /\ prev' = "byte"
    /\ E' = editorRefreshScreen(editorInsertChar(E, c))
    /\ UNCHANGED <<quit_times, promptbuf, written, file, plain, stdin, decoded,
                   frame, clock, before>>

\* case BACKSPACE of editorProcessKeypress, and the next refresh
UndoBackspace ==
    /\ pc = "inserted"
    /\ pc' = "undone"
    /\ E' = editorRefreshScreen(DeleteKey(E, BACKSPACE))
    /\ UNCHANGED <<quit_times, promptbuf, written, prev, file, plain, stdin,
                   decoded, frame, clock, before>>

NextUndo ==
    \/ UndoEnter
    \/ \E c \in CharKeys : UndoType(c)
    \/ UndoBackspace

SpecUndo == InitUndo /\ [][NextUndo]_vars

\* C26: from every state, the cursor anywhere valid, the past-last-line
\* position and the empty document included, Enter or a printable byte
\* followed at once by Backspace brings back the lines (contents and count)
\* and the cursor (cx, cy) as they were before the two keys.
BackspaceUndoesInsertion ==
    pc = "undone" => Snapshot(E) = before

(*********************** control bytes typed as keys ************************)

\* a byte below 32 that no case of editorProcessKeypress names: Ctrl-J (10)
\* reaches the default case like a printable byte
ControlKeys == {NL}

NextBytes ==
    \/ Next
    \/ \E c \in ControlKeys : KeyDefault(c)

SpecBytes == Init /\ [][NextBytes]_vars

\* C27: after any sequence of key events, every byte value being allowed as
\* a key, no line contains a line-terminator byte, so the bytes of
\* serialize() given back to the loader (split at '\n', trailing '\n' and
\* '\r' stripped) yield the same lines, in the same number.
SavedLinesReload ==
    /\ \A i \in 0..(E.numrows - 1) :
          \A j \in 1..Len(Raw(E, i)) : Raw(E, i)[j] \notin {NL, CR}
    /\ RawLines(OpenLoop(initEditor(E.screenrows, E.screencols),
                         editorRowsToString(E).buf)) = RawLines(E)

(************************** two refreshes in a row **************************)

\* time(NULL) - E.statusmsg_time at the refreshes: the message still shown,
\* the message expired
MessageAges == {4, 5}

\* states editorRefreshScreen may be entered in: as for editorScroll, the
\* file named or not, modified or not, the help message set
InitRender ==
    /\ \E n \in 0..MaxRows, l \in Lines(MaxChars),
          rows \in 1..MaxScreen, cols \in 1..MaxScreen,
          ro \in 0..MaxOff, co \in 0..MaxOff, named \in BOOLEAN, dirty \in 0..1 :
         \E cy \in 0..n :
           \E cx \in 0..(IF cy < n THEN Len(l) ELSE 0) :
              E = [initEditor(rows, cols) EXCEPT
                     !.row = [i \in 1..n |-> NewRow(l)], !.numrows = n,
                     !.cx = cx, !.cy = cy, !.rowoff = ro, !.coloff = co,
                     !.filename = IF named THEN ArgName ELSE NULL,
                     !.dirty = dirty,
                     !.statusmsg = [fmt |-> HelpFmt, args |-> <<>>]]
    /\ clock \in MessageAges
    /\ quit_times = EDITOR_QUIT_TIMES
    /\ pc = "prior"
    /\ promptbuf = <<>>
    /\ written = NoWrite
    /\ prev = "none"
    /\ file = <<>> /\ plain = <<>> /\ stdin = <<>> /\ decoded = NoKey
    /\ frame = <<>> /\ before = <<>>

\* editorRefreshScreen(), with no key handled since the refresh before it
Render ==
    /\ pc \in {"prior", "once"}
    /\ pc' = (IF pc = "prior" THEN "once" ELSE "twice")
    /\ E' = editorRefreshScreen(E)
    /\ frame' = RefreshFrame(E', clock)
    /\ UNCHANGED <<quit_times, promptbuf, written, prev, file, plain, stdin,
                   decoded, clock, before>>

NextRender == Render

SpecRender == InitRender /\ [][NextRender]_vars

\* C21: a second refresh of the same document, cursor, viewport size and
\* clock value, with no key event in between, writes a frame byte-identical
\* to the first, and its scroll recompute leaves rowoff, coloff and rx
\* exactly as the first one left them.
RenderIdempotent ==
    [][ (pc = "once" /\ Render) =>
          /\ frame' = frame
          /\ E'.rowoff = E.rowoff /\ E'.coloff = E.coloff /\ E'.rx = E.rx
      ]_vars

\* C21 witness: the second frame of a document scrolled down and right past
\* a tab, the message still shown
RenderIdempotentWitness ==
    /\ pc = "twice" /\ clock = 4
    /\ E.rowoff > 0 /\ E.coloff > 0 /\ E.rx > E.cx
    /\ frame.message.fmt = HelpFmt
    /\ frame.head = RefreshFrame(E, clock).head

(************* the loop of main and of editorPrompt, step by step ***********)

\* the bytes typed: a letter, Enter, Backspace, Ctrl-S, Ctrl-Q, Escape
LoopBytes == {97, CR, BACKSPACE, CTRL_S, CTRL_Q, ESC}
Typed(n) == UNION { [1..k -> { <<b>> : b \in LoopBytes }] : k \in 0..n }

\* main before its loop, with no file argument; stdin is all that is typed
InitLoop ==
    /\ stdin \in Typed(MaxKeys)
    /\ E = editorSetStatusMessage(initEditor(2, 3), HelpFmt, <<>>)
    /\ quit_times = EDITOR_QUIT_TIMES
    /\ pc = "refresh"
    /\ promptbuf = <<>>
    /\ written = NoWrite
    /\ prev = "none"
    /\ file = <<>> /\ plain = <<>> /\ decoded = NoKey /\ ExtraIdle

\* mutant: the loop of main starts over at the read
LoopTopAtRead == "read"

\* while (1) { editorRefreshScreen(); editorProcessKeypress(); }
LoopTop == "refresh"

\* editorRefreshScreen() of main
LoopRefresh ==
    /\ pc = "refresh"
    /\ pc' = "read"
    /\ prev' = "render"
    /\ E' = editorRefreshScreen(E)
    /\ UNCHANGED <<quit_times, promptbuf, written, aux>>

\* editorSetStatusMessage(prompt, buf); editorRefreshScreen(); of editorPrompt
PromptRefresh ==
    /\ pc = "prompt_refresh"
    /\ pc' = "prompt_read"
    /\ prev' = "render"
    /\ E' = editorRefreshScreen(editorSetStatusMessage(E, PromptFmt, promptbuf))
    /\ UNCHANGED <<quit_times, promptbuf, written, aux>>

\* int c = editorReadKey(); of editorProcessKeypress and of editorPrompt
LoopRead ==
    /\ pc \in {"read", "prompt_read"}
    /\ \E i \in 1..Len(stdin) : stdin[i] /= <<>>
    /\ pc' = (IF pc = "read" THEN "process" ELSE "prompt_process")
    /\ prev' = "read"
    /\ \E char_signed \in BOOLEAN :
          LET r == editorReadKey(stdin, char_signed)
          IN /\ decoded' = [key |-> r.key, reads |-> r.reads, from |-> r.from]
             /\ stdin' = r.rest
    /\ UNCHANGED <<E, quit_times, promptbuf, written, file, plain, extra>>

\* the cases of editorProcessKeypress other than quit and save
SwitchKey(e, c) ==
    IF c = CR THEN editorInsertNewLine(e)
    ELSE IF c \in HomeEndKeys THEN HomeEnd(e, c)
    ELSE IF c \in DeleteKeys THEN DeleteKey(e, c)
    ELSE IF c \in PageKeys THEN PageMove(e, c)
    ELSE IF c \in ArrowKeys THEN editorMoveCursor(e, c)
    ELSE IF c \in NoopKeys THEN e
    ELSE editorInsertChar(e, c)

\* the switch of editorProcessKeypress on the key read
LoopProcess(result) ==
    /\ pc = "process"
    /\ prev' = "effect"
    /\ UNCHANGED aux
    /\ LET c == decoded.key
       IN IF c \in QuitKeys
          THEN IF E.dirty /= 0 /\ quit_times > 0
               THEN /\ pc' = LoopTop
                    /\ quit_times' = quit_times - 1
                    /\ E' = editorSetStatusMessage(E, WarnFmt, <<quit_times>>)
                    /\ UNCHANGED <<promptbuf, written>>
               ELSE /\ pc' = "exited"
                    /\ UNCHANGED <<E, quit_times, promptbuf, written>>
          ELSE IF c = CTRL_S
          THEN IF E.filename = NULL
               THEN /\ pc' = "prompt_refresh"
                    /\ promptbuf' = <<>>
                    /\ UNCHANGED <<E, quit_times, written>>
               ELSE /\ pc' = LoopTop
                    /\ quit_times' = EDITOR_QUIT_TIMES
                    /\ written' = SaveBytes(E, result)
                    /\ E' = editorSaveFile(E, result)
                    /\ UNCHANGED promptbuf
          ELSE /\ pc' = LoopTop
               /\ quit_times' = EDITOR_QUIT_TIMES
               /\ E' = SwitchKey(E, c)
               /\ UNCHANGED <<promptbuf, written>>

\* the if-chain of editorPrompt on the key read
PromptProcess(result) ==
    /\ pc = "prompt_process"
    /\ prev' = "effect"
    /\ UNCHANGED aux
    /\ LET c == decoded.key
       IN IF c \in DeleteKeys
          THEN /\ pc' = "prompt_refresh"
               /\ promptbuf' = (IF Len(promptbuf) /= 0
                                THEN SubSeq(promptbuf, 1, Len(promptbuf) - 1)
                                ELSE promptbuf)
               /\ UNCHANGED <<E, quit_times, written>>
          ELSE IF c = ESC
          THEN /\ pc' = LoopTop
               /\ promptbuf' = <<>>
               /\ quit_times' = EDITOR_QUIT_TIMES
               /\ E' = editorSetStatusMessage(
                          editorSetStatusMessage(E, "", <<>>), "Save Aborted", <<>>)
               /\ UNCHANGED written
          ELSE IF c = CR /\ Len(promptbuf) /= 0
          THEN LET e1 == [editorSetStatusMessage(E, "", <<>>)
                            EXCEPT !.filename = promptbuf]
               IN /\ pc' = LoopTop
                  /\ promptbuf' = <<>>
                  /\ quit_times' = EDITOR_QUIT_TIMES
                  /\ written' = SaveBytes(e1, result)
                  /\ E' = editorSaveFile(e1, result)
          ELSE /\ pc' = "prompt_refresh"
               /\ promptbuf' = (IF c /= CR /\ ~iscntrl(c) /\ c < 128
                                THEN Append(promptbuf, c) ELSE promptbuf)
               /\ UNCHANGED <<E, quit_times, written>>

NextLoop ==
    \/ LoopRefresh
    \/ PromptRefresh
    \/ LoopRead
    \/ \E result \in SaveResults : LoopProcess(result)
    \/ \E result \in SaveResults : PromptProcess(result)

SpecLoop == InitLoop /\ [][NextLoop]_vars

\* C24: in the main loop and in the save-as prompt alike, a key event is
\* read only right after a render that came after the previous key's effect,
\* and the step after a key's effect is a render: no two key effects are
\* applied without a scroll recompute between them, and no key is consumed
\* after a mutation before a render.
RenderBeforeRead ==
    [][ /\ LoopRead => prev = "render"
        /\ prev = "effect" =>
              /\ LoopRefresh \/ PromptRefresh
              /\ E'.rowoff = editorScroll(E').rowoff
              /\ E'.coloff = editorScroll(E').coloff
              /\ E'.rx = editorScroll(E').rx
      ]_vars

\* C24 witness: main is about to read the next key after the render that
\* followed a save under a name typed into the prompt
RenderBeforeReadWitness ==
    /\ pc = "read" /\ prev = "render"
    /\ E.numrows = 1 /\ E.dirty = 0 /\ E.filename = <<97>>
    /\ written.result = "ok"

============================================================================
